---- MODULE Spec2Model ----
(***************************************************************************)
(* Model of app/main.py: the contact-management backend.                   *)
(*                                                                         *)
(* State: the two relational tables ("user", "contacts"), the primary-key  *)
(* sequence of the contacts table, the registrations that are between the  *)
(* awaits of UserManager.create, the JWTs handed out so far, the wall      *)
(* clock, and the latest request / resolved user object / response.        *)
(*                                                                         *)
(* Scheduling: every route handler is an `async def` run on the server's   *)
(* event loop.  The contact handlers and upload_avatar contain no `await`, *)
(* so each runs to completion before another request's handler starts:     *)
(* one action per handler.  UserManager.create awaits before its insert,   *)
(* so a registration is two steps and two registrations interleave.        *)
(*                                                                         *)
(* The database is whatever DATABASE_URL names.  What the code fixes is    *)
(* modelled as the code states it; what it leaves to the database (the     *)
(* order of a SELECT without ORDER BY, where an UPDATE puts the new row    *)
(* version) is a choice.  Primary keys come from a sequence and are not    *)
(* handed out twice.                                                       *)
(***************************************************************************)
EXTENDS Integers, Sequences, FiniteSets

VARIABLES
    users,        \* table "user": sequence of rows, row i has id i
    contacts,     \* table "contacts": sequence of rows in physical (scan) order
    next_id,      \* next value of the contacts primary-key sequence
    registering,  \* db_user objects built by UserManager.create, insert pending
    tokens,       \* JWTs issued by the login route (held by clients)
    now,          \* wall clock, seconds
    request,      \* the latest request: [op, token, ...arguments]
    user,         \* the `user` object resolved for the latest request
    response      \* the latest response: [status, body]

vars == <<users, contacts, next_id, registering, tokens, now, request, user, response>>

---------------------------------------------------------------------------
\* Bounds of the model.

MaxContacts == 2      \* contacts created in one run
MaxUsers == 3         \* rows of the user table
MaxInflight == 2      \* registrations between build and insert
MaxTokens == 2        \* JWTs issued in one run
MaxJwtContacts == 1   \* contacts created in one run of SpecJwt
MaxPage == 2          \* largest skip and limit tried

---------------------------------------------------------------------------
\* Values.

None == "None"

\* JWTStrategy(secret=SECRET, lifetime_seconds=3600)
lifetime_seconds == 3600
SECRET == "SECRET"

Emails == {"a@x.io", "b@x.io"}
Passwords == {"pw"}
WrongPasswords == {"bad"}

\* PasswordHelper().hash
hash(password) == <<"hashed", password>>

\* Instants at which the clock is observed: around one JWT lifetime.
Instants == {0, lifetime_seconds - 1, lifetime_seconds, lifetime_seconds + 1}

\* URLs the image host returns, and avatar values a client may PATCH into its
\* profile.  They are kept apart so that a stored avatar shows where it came from.
CloudinaryUrls == {"http://res.cloudinary.com/1", "http://res.cloudinary.com/2"}
ProfileAvatars == {"http://example.org/me.png"}
UploadError == "cloudinary.exceptions.Error"

\* A datetime is <<day, seconds since midnight>>; a date is a day number.
Datetime(day, secs) == <<day, secs>>

\* Request bodies (ContactCreate / ContactUpdate).  additional_info is optional
\* and defaults to None.
ContactCreate(fn, ln, em, ph, bd, info) ==
    [first_name |-> fn, last_name |-> ln, email |-> em, phone_number |-> ph,
     birthday |-> bd, additional_info |-> info]

Payloads ==
    { ContactCreate("Ann", "Lee", "ann@c.io", "111", Datetime(1, 0), None),
      ContactCreate("Bob", "Ray", "bob@c.io", "222", Datetime(2, 45000), "note") }

ContactUpdate == Payloads

\* Column(Date): a datetime bound to a DATE column keeps its calendar date only.
Date(dt) == dt[1]

\* birthday: datetime in the response model: a date reads back as that day's
\* midnight.
AsDatetime(d) == Datetime(d, 0)

\* response_model=ContactCreate: the six fields of a row; id and owner_id are
\* not part of the response.
Serialize(row) ==
    ContactCreate(row.first_name, row.last_name, row.email, row.phone_number,
                  AsDatetime(row.birthday), row.additional_info)

\* Contact with the owner hard-wired instead of taken from the caller.
Contact_fixed_owner(id, contact, owner_id) ==
    [id |-> id,
     first_name |-> contact.first_name,
     last_name |-> contact.last_name,
     email |-> contact.email,
     phone_number |-> contact.phone_number,
     birthday |-> contact.birthday[1],
     additional_info |-> contact.additional_info,
     owner_id |-> 1]

\* Contact(**contact.dict(), owner_id=user.id), as the row the database keeps.
Contact(id, contact, owner_id) ==
    [id |-> id,
     first_name |-> contact.first_name,
     last_name |-> contact.last_name,
     email |-> contact.email,
     phone_number |-> contact.phone_number,
     birthday |-> Date(contact.birthday),
     additional_info |-> contact.additional_info,
     owner_id |-> owner_id]

\* UserRead: id, email, avatar.
UserRead(u) == [id |-> u.id, email |-> u.email, avatar |-> u.avatar]

NoUser == [id |-> 0, email |-> None, hashed_password |-> <<None, None>>,
           is_active |-> FALSE, is_superuser |-> FALSE, avatar |-> None]

---------------------------------------------------------------------------
\* Sequence helpers.

Range(s) == {s[i] : i \in 1..Len(s)}

RemoveAt(s, i) == SubSeq(s, 1, i - 1) \o SubSeq(s, i + 1, Len(s))

Min(a, b) == IF a < b THEN a ELSE b

\* .filter(Contact.owner_id == owner_id): the matching rows, in scan order.
RECURSIVE Filter(_, _)
Filter(s, owner_id) ==
    IF s = <<>> THEN <<>>
    ELSE IF Head(s).owner_id = owner_id
         THEN <<Head(s)>> \o Filter(Tail(s), owner_id)
         ELSE Filter(Tail(s), owner_id)

\* .offset(skip).limit(limit)
OffsetLimit(rows, skip, limit) ==
    SubSeq(rows, skip + 1, Min(Len(rows), skip + limit))

Map(rows) == [i \in 1..Len(rows) |-> Serialize(rows[i])]

---------------------------------------------------------------------------
\* Authentication (auth_backend, JWTStrategy, fastapi_users.current_user).

\* A missing Authorization header.
NoToken == [sub |-> 0, exp |-> 0, key |-> None]

\* JWTStrategy.write_token: subject and expiry, signed with SECRET.
write_token(u) == [sub |-> u.id, exp |-> now + lifetime_seconds, key |-> SECRET]

\* Tokens signed with some other key.
Forged == {[sub |-> 1, exp |-> 3 * lifetime_seconds, key |-> "guess"]}

BearerTokens == {NoToken} \cup Forged \cup tokens

\* Expired off by one: a token is still taken at the instant it expires.
Expired_late(token) == token.exp < now

\* The token's lifetime of lifetime_seconds is over.
Expired(token) == token.exp <= now

\* read_token that decodes without verifying the signature.
read_token_unverified(token) ==
    IF /\ token.key # None
       /\ ~Expired(token)
       /\ token.sub \in 1..Len(users)
    THEN users[token.sub]
    ELSE NoUser

\* JWTStrategy.read_token: signature, expiry, then the user row by id.
read_token(token) ==
    IF /\ token.key = SECRET
       /\ ~Expired(token)
       /\ token.sub \in 1..Len(users)
    THEN users[token.sub]
    ELSE NoUser

\* Depends(fastapi_users.current_user): the user of the bearer token, or NoUser
\* when the request is answered 401 before the handler runs.
current_user(token) ==
    LET u == read_token(token)
    IN  IF u.is_active THEN u ELSE NoUser

Unauthorized(op, token, args) ==
    /\ request' = [op |-> op, token |-> token, args |-> args]
    /\ user' = NoUser
    /\ response' = [status |-> 401, body |-> "Unauthorized"]

Answer(op, token, args, u, status, body) ==
    /\ request' = [op |-> op, token |-> token, args |-> args]
    /\ user' = u
    /\ response' = [status |-> status, body |-> body]

---------------------------------------------------------------------------
\* Registration and login (register router, auth router, UserManager).

\* An insert that never raises: no unique constraint on the email.
IntegrityError_never(db_user) == FALSE

\* The insert of UserManager.create raises IntegrityError: the email is taken.
IntegrityError(db_user) == \E i \in 1..Len(users) : users[i].email = db_user.email

\* UserManager.create up to its insert: validate, hash, build db_user.
create_build(email, password) ==
    /\ Len(registering) < MaxInflight
    /\ registering' = Append(registering,
            [email |-> email, hashed_password |-> hash(password),
             is_active |-> TRUE, is_superuser |-> FALSE])
    /\ UNCHANGED <<users, contacts, next_id, tokens, now, request, user, response>>

\* UserManager.create from its insert on: the row is stored and returned, or
\* IntegrityError becomes 409.
create_insert(i) ==
    /\ i \in 1..Len(registering)
    /\ LET db_user == registering[i]
           row == [id |-> Len(users) + 1, email |-> db_user.email,
                   hashed_password |-> db_user.hashed_password,
                   is_active |-> db_user.is_active,
                   is_superuser |-> db_user.is_superuser, avatar |-> None]
           args == [email |-> db_user.email]
       IN  IF IntegrityError(db_user)
           THEN /\ users' = users
                /\ Answer("register", NoToken, args, NoUser, 409,
                          "User with this email already exists")
           ELSE /\ Len(users) < MaxUsers
                /\ users' = Append(users, row)
                /\ Answer("register", NoToken, args, NoUser, 201, UserRead(row))
    /\ registering' = RemoveAt(registering, i)
    /\ UNCHANGED <<contacts, next_id, tokens, now>>

\* POST /auth/jwt/login: a JWT for good credentials (the library answers bad
\* ones with 400).
login(email, password) ==
    LET found == {i \in 1..Len(users) : /\ users[i].email = email
                                        /\ users[i].hashed_password = hash(password)
                                        /\ users[i].is_active}
        args == [email |-> email, password |-> password]
    IN  /\ IF found = {}
           THEN /\ tokens' = tokens
                /\ Answer("login", NoToken, args, NoUser, 400, "LOGIN_BAD_CREDENTIALS")
           ELSE \E i \in found :
                /\ write_token(users[i]) \in tokens \/ Cardinality(tokens) < MaxTokens
                /\ tokens' = tokens \cup {write_token(users[i])}
                /\ Answer("login", NoToken, args, NoUser, 200, write_token(users[i]))
        /\ UNCHANGED <<users, contacts, next_id, registering, now>>

\* Time passes.
Tick ==
    /\ \E t \in Instants : t > now /\ now' = t
    /\ UNCHANGED <<users, contacts, next_id, registering, tokens, request, user, response>>

---------------------------------------------------------------------------
\* Profile (users router) and avatar upload.

\* GET /users/me
read_profile(token) ==
    LET u == current_user(token)
    IN  /\ IF u = NoUser
           THEN Unauthorized("read_profile", token, [none |-> None])
           ELSE Answer("read_profile", token, [none |-> None], u, 200, UserRead(u))
        /\ UNCHANGED <<users, contacts, next_id, registering, tokens, now>>

\* PATCH /users/me with UserUpdate(avatar=...): the library stores the field.
update_profile(token, avatar) ==
    LET u == current_user(token)
        args == [avatar |-> avatar]
    IN  /\ IF u = NoUser
           THEN /\ users' = users
                /\ Unauthorized("update_profile", token, args)
           ELSE LET updated == [u EXCEPT !.avatar = avatar]
                IN  /\ users' = [users EXCEPT ![u.id] = updated]
                    /\ Answer("update_profile", token, args, updated, 200, UserRead(updated))
        /\ UNCHANGED <<contacts, next_id, registering, tokens, now>>

\* upload_avatar followed by a commit of the user object.
avatar_committed(u, avatar_url) == [users EXCEPT ![u.id].avatar = avatar_url]

\* What upload_avatar leaves in the user table: it assigns user.avatar and never
\* commits.
avatar_stored(u, avatar_url) == users

\* POST /users/{user_id}/avatar/
upload_avatar(token, user_id, result) ==
    LET u == current_user(token)
        args == [user_id |-> user_id]
    IN  /\ IF u = NoUser
           THEN /\ users' = users
                /\ Unauthorized("upload_avatar", token, args)
           ELSE IF result = UploadError
           THEN /\ users' = users
                /\ Answer("upload_avatar", token, args, u, 500, "Internal Server Error")
           ELSE /\ users' = avatar_stored(u, result)
                /\ Answer("upload_avatar", token, args, [u EXCEPT !.avatar = result],
                          200, [avatar_url |-> result])
        /\ UNCHANGED <<contacts, next_id, registering, tokens, now>>
---------------------------------------------------------------------------
\* Contact routes.

\* The filter without its owner condition.
Matches_any_owner(row, contact_id, u) == row.id = contact_id

\* .filter(Contact.id == contact_id, Contact.owner_id == user.id)
Matches(row, contact_id, u) == row.id = contact_id /\ row.owner_id = u.id

\* .first(): the position of the first matching row, 0 for None.
first(contact_id, u) ==
    LET hits == {i \in 1..Len(contacts) : Matches(contacts[i], contact_id, u)}
    IN  IF hits = {} THEN 0 ELSE CHOOSE i \in hits : \A j \in hits : i <= j

NotFound(op, token, args, u) ==
    Answer(op, token, args, u, 404, "Contact not found")

\* POST /contacts/
create_contact(token, contact) ==
    LET u == current_user(token)
        args == [contact |-> contact]
    IN  /\ IF u = NoUser
           THEN /\ UNCHANGED <<contacts, next_id>>
                /\ Unauthorized("create_contact", token, args)
           ELSE LET db_contact == Contact(next_id, contact, u.id)
                IN  /\ next_id <= MaxContacts
                    /\ contacts' = Append(contacts, db_contact)
                    /\ next_id' = next_id + 1
                    /\ Answer("create_contact", token, args, u, 200, Serialize(db_contact))
        /\ UNCHANGED <<users, registering, tokens, now>>

\* GET /contacts/: the query has no ORDER BY, so the rows come in scan order.
read_contacts(token, skip, limit) ==
    LET u == current_user(token)
        args == [skip |-> skip, limit |-> limit]
    IN  /\ IF u = NoUser
           THEN Unauthorized("read_contacts", token, args)
           ELSE Answer("read_contacts", token, args, u, 200,
                       Map(OffsetLimit(Filter(contacts, u.id), skip, limit)))
        /\ UNCHANGED <<users, contacts, next_id, registering, tokens, now>>

\* GET /contacts/{contact_id}
read_contact(token, contact_id) ==
    LET u == current_user(token)
        args == [contact_id |-> contact_id]
    IN  /\ IF u = NoUser
           THEN Unauthorized("read_contact", token, args)
           ELSE IF first(contact_id, u) = 0
           THEN NotFound("read_contact", token, args, u)
           ELSE Answer("read_contact", token, args, u, 200,
                       Serialize(contacts[first(contact_id, u)]))
        /\ UNCHANGED <<users, contacts, next_id, registering, tokens, now>>

\* The table after the UPDATE of row i is committed: the database rewrites the
\* row where it is, or writes the new version at the end of the table.
commit_update(i, row, relocate) ==
    IF relocate THEN Append(RemoveAt(contacts, i), row)
    ELSE [contacts EXCEPT ![i] = row]

\* for key, value in contact.dict().items(): setattr(db_contact, key, value)
setattrs(db_contact, contact) ==
    Contact(db_contact.id, contact, db_contact.owner_id)

\* PUT /contacts/{contact_id}
update_contact(token, contact_id, contact, relocate) ==
    LET u == current_user(token)
        args == [contact_id |-> contact_id, contact |-> contact]
        i == first(contact_id, u)
    IN  /\ IF u = NoUser
           THEN /\ contacts' = contacts
                /\ Unauthorized("update_contact", token, args)
           ELSE IF i = 0
           THEN /\ contacts' = contacts
                /\ NotFound("update_contact", token, args, u)
           ELSE LET db_contact == setattrs(contacts[i], contact)
                IN  /\ contacts' = commit_update(i, db_contact, relocate)
                    /\ Answer("update_contact", token, args, u, 200, Serialize(db_contact))
        /\ UNCHANGED <<users, next_id, registering, tokens, now>>

\* DELETE by owner instead of by primary key.
commit_delete_owner(i) ==
    SelectSeq(contacts, LAMBDA row : row.owner_id # contacts[i].owner_id)

\* The table after db.delete(db_contact); db.commit() for row i.
commit_delete(i) == RemoveAt(contacts, i)

\* delete_contact without the `is None` check: db.delete(None) raises.
delete_contact_unchecked(token, contact_id) ==
    LET u == current_user(token)
        args == [contact_id |-> contact_id]
        i == first(contact_id, u)
    IN  /\ IF u = NoUser
           THEN /\ contacts' = contacts
                /\ Unauthorized("delete_contact", token, args)
           ELSE IF i = 0
           THEN /\ contacts' = contacts
                /\ Answer("delete_contact", token, args, u, 500, "Internal Server Error")
           ELSE /\ contacts' = commit_delete(i)
                /\ Answer("delete_contact", token, args, u, 200, Serialize(contacts[i]))
        /\ UNCHANGED <<users, next_id, registering, tokens, now>>

\* DELETE /contacts/{contact_id}: the row is still loaded when it is returned.
delete_contact(token, contact_id) ==
    LET u == current_user(token)
        args == [contact_id |-> contact_id]
        i == first(contact_id, u)
    IN  /\ IF u = NoUser
           THEN /\ contacts' = contacts
                /\ Unauthorized("delete_contact", token, args)
           ELSE IF i = 0
           THEN /\ contacts' = contacts
                /\ NotFound("delete_contact", token, args, u)
           ELSE /\ contacts' = commit_delete(i)
                /\ Answer("delete_contact", token, args, u, 200, Serialize(contacts[i]))
        /\ UNCHANGED <<users, next_id, registering, tokens, now>>

---------------------------------------------------------------------------
\* Specifications.  The user table is written only by the registration and
\* profile routes and the contacts table only by the contact routes, so the
\* application is verified in three parts: SpecUsers from the empty database,
\* SpecJwt from the state SpecUsers reaches once two users have registered, and
\* Spec from the state SpecJwt reaches once both have logged in.

NoRequest == [op |-> "none", token |-> NoToken, args |-> [none |-> None]]
NoResponse == [status |-> 0, body |-> None]

UserRow(id, email) ==
    [id |-> id, email |-> email, hashed_password |-> hash("pw"),
     is_active |-> TRUE, is_superuser |-> FALSE, avatar |-> None]

TwoUsers == <<UserRow(1, "a@x.io"), UserRow(2, "b@x.io")>>

FirstToken(id) == [sub |-> id, exp |-> lifetime_seconds, key |-> SECRET]

\* After construction: Base.metadata.create_all on an empty database.
Init ==
    /\ users = <<>>
    /\ contacts = <<>>
    /\ next_id = 1
    /\ registering = <<>>
    /\ tokens = {}
    /\ now = 0
    /\ request = NoRequest
    /\ user = NoUser
    /\ response = NoResponse

\* a@x.io, then b@x.io have registered.
Registered ==
    /\ users = TwoUsers
    /\ contacts = <<>>
    /\ next_id = 1
    /\ registering = <<>>
    /\ tokens = {}
    /\ now = 0
    /\ request = [op |-> "register", token |-> NoToken, args |-> [email |-> "b@x.io"]]
    /\ user = NoUser
    /\ response = [status |-> 201, body |-> UserRead(TwoUsers[2])]

\* Both have logged in, at time 0.
LoggedIn ==
    /\ users = TwoUsers
    /\ contacts = <<>>
    /\ next_id = 1
    /\ registering = <<>>
    /\ tokens = {FirstToken(1), FirstToken(2)}
    /\ now = 0
    /\ request = [op |-> "login", token |-> NoToken,
                  args |-> [email |-> "b@x.io", password |-> "pw"]]
    /\ user = NoUser
    /\ response = [status |-> 200, body |-> FirstToken(2)]

Ids == 1..MaxContacts
Pages == 0..MaxPage

\* Callers of the contact routes: the logged-in users, and one without a token.
Callers == {NoToken} \cup tokens

\* The contact routes and the avatar upload.
Next ==
    \/ \E token \in Callers, contact \in Payloads : create_contact(token, contact)
    \/ \E token \in Callers, skip \in Pages, limit \in Pages :
          read_contacts(token, skip, limit)
    \/ \E token \in Callers, contact_id \in Ids : read_contact(token, contact_id)
    \/ \E token \in Callers, contact_id \in Ids, contact \in ContactUpdate,
          relocate \in BOOLEAN : update_contact(token, contact_id, contact, relocate)
    \/ \E token \in Callers, contact_id \in Ids : delete_contact(token, contact_id)
    \/ \E token \in Callers, user_id \in 1..Len(users), result \in CloudinaryUrls :
          upload_avatar(token, user_id, result)

Spec == LoggedIn /\ [][Next]_vars

\* Registration, login, profile and avatar.
NextUsers ==
    \/ \E email \in Emails, password \in Passwords : create_build(email, password)
    \/ \E i \in 1..MaxInflight : create_insert(i)
    \/ \E email \in Emails, password \in Passwords \cup WrongPasswords : login(email, password)
    \/ \E token \in BearerTokens : read_profile(token)
    \/ \E token \in BearerTokens, avatar \in ProfileAvatars : update_profile(token, avatar)
    \/ \E token \in BearerTokens, user_id \in 1..MaxUsers,
          result \in CloudinaryUrls \cup {UploadError} : upload_avatar(token, user_id, result)

SpecUsers == Init /\ [][NextUsers]_vars

\* Login, the clock and every protected route.
JwtPayloads == {ContactCreate("Ann", "Lee", "ann@c.io", "111", Datetime(1, 0), None)}
JwtUpdates == JwtPayloads
JwtIds == 1..MaxJwtContacts

NextJwt ==
    \/ \E email \in Emails, password \in Passwords \cup WrongPasswords : login(email, password)
    \/ Tick
    \/ \E token \in BearerTokens : read_profile(token)
    \/ \E token \in BearerTokens, avatar \in ProfileAvatars : update_profile(token, avatar)
    \/ \E token \in BearerTokens, result \in {"http://res.cloudinary.com/1"} :
          upload_avatar(token, 1, result)
    \/ \E token \in BearerTokens, contact \in JwtPayloads :
          /\ current_user(token) = NoUser \/ next_id <= MaxJwtContacts
          /\ create_contact(token, contact)
    \/ \E token \in BearerTokens : read_contacts(token, 0, MaxPage)
    \/ \E token \in BearerTokens, contact_id \in JwtIds : read_contact(token, contact_id)
    \/ \E token \in BearerTokens, contact_id \in JwtIds, contact \in JwtUpdates :
          update_contact(token, contact_id, contact, FALSE)
    \/ \E token \in BearerTokens, contact_id \in JwtIds : delete_contact(token, contact_id)

SpecJwt == Registered /\ [][NextJwt]_vars

---------------------------------------------------------------------------
\* Vocabulary of the properties.

ContactIds(table) == {table[i].id : i \in 1..Len(table)}

ByIdOps == {"read_contact", "update_contact", "delete_contact"}
ContactOps == ByIdOps \cup {"create_contact", "read_contacts"}
ProtectedOps == ContactOps \cup {"upload_avatar"}
UserRouteOps == {"read_profile", "update_profile"}

\* A step that handled the request now in `request`: every step but the clock's
\* and the first half of a registration.
Handled == now' = now /\ Len(registering') <= Len(registering)

\* The caller's rows in the order they were created (ascending id).
InCreationOrder(table, owner_id) ==
    LET mine == {row \in Range(table) : row.owner_id = owner_id}
    IN  CHOOSE rows \in [1..Cardinality(mine) -> mine] :
            \A i, j \in 1..Cardinality(mine) : i < j => rows[i].id < rows[j].id

UniqueEmails(table) ==
    \A i, j \in 1..Len(table) : table[i].email = table[j].email => i = j

IssuedAt(token) == token.exp - lifetime_seconds

---------------------------------------------------------------------------
\* C1: when user B, authenticated, reads, updates or deletes by id a contact
\* that exists and belongs to another user A, the answer is 404 and the
\* contacts table (the contact's fields and its existence) is unchanged.
C1_ForeignContactNotFound ==
    [][ ( /\ Handled
          /\ request'.op \in ByIdOps
          /\ user' # NoUser
          /\ \E row \in Range(contacts) : /\ row.id = request'.args.contact_id
                                          /\ row.owner_id # user'.id )
        => ( response'.status = 404 /\ contacts' = contacts ) ]_vars

\* B's update of A's contact was answered 404 and the contact is still A's.
C1_Witness ==
    /\ request.op = "update_contact"
    /\ response.status = 404
    /\ user # NoUser
    /\ \E row \in Range(contacts) : /\ row.id = request.args.contact_id
                                    /\ row.owner_id # user.id
                                    /\ Serialize(row) # Serialize(Contact(0, request.args.contact, 0))

\* C2: an insert for an email that a stored user already has is answered 409
\* and adds no row, and in every state, whatever the interleaving of the
\* registrations, no two user rows share an email.
C2_OneUserPerEmail ==
    [][ /\ UniqueEmails(users')
        /\ ( /\ Len(registering') < Len(registering)
             /\ \E i \in 1..Len(users) : users[i].email = request'.args.email )
           => ( response'.status = 409 /\ users' = users ) ]_vars

\* A registration was refused with 409 while another one for the same email was
\* still between its build and its insert.
C2_Witness ==
    /\ request.op = "register"
    /\ response.status = 409
    /\ \E i \in 1..Len(users) : users[i].email = request.args.email
    /\ \E k \in 1..Len(registering) : registering[k].email = request.args.email

\* C3 (as claimed): a list answer is the caller's own contacts in creation
\* order, without the first `skip`, at most `limit` of them.
C3_ListInCreationOrder ==
    ( request.op = "read_contacts" /\ response.status = 200 )
    => response.body = Map(OffsetLimit(InCreationOrder(contacts, user.id),
                                       request.args.skip, request.args.limit))

\* C4: a request to a protected route that carries an issued JWT 3600 seconds
\* or more after it was issued is answered 401, resolves no user, and changes
\* neither table; so a JWT is accepted only while it is younger than 3600 s.
C4_JwtLifetime ==
    [][ ( /\ Handled
          /\ request'.op \in ProtectedOps \cup UserRouteOps
          /\ request'.token \in tokens
          /\ now - IssuedAt(request'.token) >= 3600 )
        => ( /\ response'.status = 401
             /\ user' = NoUser
             /\ UNCHANGED <<users, contacts, next_id>> ) ]_vars

\* A create carrying an issued JWT was refused at the very second it expired.
C4_Witness ==
    /\ request.op = "create_contact"
    /\ request.token \in tokens
    /\ response.status = 401
    /\ now = IssuedAt(request.token) + 3600

\* C5: a contact route or the avatar upload called without a token, with a
\* token the server did not issue, or with an expired one, is answered 401 and
\* changes neither the user table nor the contacts table.
C5_UnauthorizedChangesNothing ==
    [][ ( /\ Handled
          /\ request'.op \in ProtectedOps
          /\ \/ request'.token \notin tokens
             \/ request'.token.exp <= now )
        => ( /\ response'.status = 401
             /\ users' = users
             /\ contacts' = contacts ) ]_vars

\* A delete carrying a forged token that names the owner of an existing contact
\* was answered 401, and the contact is still there.
C5_Witness ==
    /\ request.op = "delete_contact"
    /\ request.token \in Forged
    /\ response.status = 401
    /\ \E row \in Range(contacts) : /\ row.id = request.args.contact_id
                                    /\ row.owner_id = request.token.sub

C8_UpdateStoresSupplied ==
    [][ ( /\ Handled
          /\ request'.op = "update_contact"
          /\ user' # NoUser
          /\ \E row \in Range(contacts) : /\ row.id = request'.args.contact_id
                                          /\ row.owner_id = user'.id )
        => LET old == CHOOSE row \in Range(contacts) :
                          row.id = request'.args.contact_id
           IN  /\ response'.status = 200
               /\ response'.body = request'.args.contact
               /\ \E new \in Range(contacts') :
                     /\ new.id = old.id
                     /\ new.owner_id = old.owner_id
                     /\ Serialize(new) = request'.args.contact
                     /\ Range(contacts') \ {new} = Range(contacts) \ {old}
               /\ Len(contacts') = Len(contacts) ]_vars

\* C9: in every step the stored contacts have distinct ids and an owner in the
\* user table; a contact that was stored before the step and is stored after it
\* has the same owner; a contact that is new after the step was appended by a
\* create_contact, has the id the sequence had not yet handed out, and is owned
\* by the caller.
C9_OwnerIsCreator ==
    [][ /\ Cardinality(ContactIds(contacts')) = Len(contacts')
        /\ \A row \in Range(contacts') : row.owner_id \in {users'[i].id : i \in 1..Len(users')}
        /\ \A row \in Range(contacts'), old \in Range(contacts) :
               row.id = old.id => row.owner_id = old.owner_id
        /\ \A row \in Range(contacts') :
               row.id \notin ContactIds(contacts)
               => /\ request'.op = "create_contact"
                  /\ row.id = next_id
                  /\ row.owner_id = user'.id
                  /\ contacts' = Append(contacts, row)
        /\ ( request'.op = "create_contact" /\ response'.status = 200 )
           => Len(contacts') = Len(contacts) + 1
        /\ next_id' >= next_id
        /\ \A row \in Range(contacts') : row.id < next_id' ]_vars

\* The second user created a contact while the first one's contact is stored.
C9_Witness ==
    /\ request.op = "create_contact"
    /\ response.status = 200
    /\ user.id = 2
    /\ \E row \in Range(contacts) : row.owner_id = 2 /\ row.id = next_id - 1
    /\ \E row \in Range(contacts) : row.owner_id = 1

====
